---- MODULE Spec2Model ----
(***************************************************************************)
(* Model of src/app.py, the Streamlit "OTA Knowledge Search Tool".         *)
(*                                                                         *)
(* The script runs top to bottom once per user interaction (a "rerun").    *)
(* State that survives a rerun: the process-wide st.cache_data cache, the  *)
(* widget values of the session (text input, selectbox, file uploader),    *)
(* and what the last run rendered.  Every action below is one interaction  *)
(* followed by the whole script run it triggers.                           *)
(*                                                                         *)
(* Strings are sequences of code points, so that str.lower, str.strip,     *)
(* the `in` substring test and the ordering used by sorted() are computed  *)
(* as Python computes them.                                                *)
(***************************************************************************)
EXTENDS Integers, Sequences, FiniteSets, TLC

VARIABLES
    fileExists,   \* os.path.exists(EXCEL_PATH)
    wb,           \* the workbook behind EXCEL_PATH / behind the uploader
    cache,        \* st.cache_data store of load_df_cached: key -> DataFrame
    reads,        \* completed reads of the table, per source
    uploaded,     \* value of st.file_uploader (TRUE: a file is attached)
    text,         \* value of st.text_input, before .strip()
    sel,          \* value of st.selectbox as kept by the session
    df,           \* the script global df of the last run
    out           \* what the last run rendered

vars == <<fileExists, wb, cache, reads, uploaded, text, sel, df, out>>

----------------------------------------------------------------------------
(* Bounds of the model *)

MaxRows == 2      \* rows of a sheet
MaxReads == 3     \* reruns of the uploaded-file path that are explored

----------------------------------------------------------------------------
(* String literals of the program, as code points *)

EXCEL_PATH == <<88, 89, 46, 120, 108, 115, 120>>                  \* "XY.xlsx"
SHEET_NAME == <<88, 89>>                                          \* "XY"
s_ota == <<111, 116, 97>>                                         \* "ota"
s_ota_name == <<111, 116, 97, 32, 110, 97, 109, 101>>             \* "ota name"
s_ota_name_us == <<111, 116, 97, 95, 110, 97, 109, 101>>          \* "ota_name"
s_channel == <<99, 104, 97, 110, 110, 101, 108>>                  \* "channel"
s_channel_name == <<99, 104, 97, 110, 110, 101, 108, 32, 110, 97, 109, 101>>  \* "channel name"
s_category == <<99, 97, 116, 101, 103, 111, 114, 121>>            \* "category"
s_nan == <<110, 97, 110>>                                         \* "nan"
s_na == <<110, 97>>                                               \* "na"
s_n_a == <<110, 47, 97>>                                          \* "n/a"
s_none == <<110, 111, 110, 101>>                                  \* "none"
s_no == <<110, 111>>                                              \* "no"
s_0 == <<48>>                                                     \* "0"
s_setup == <<115, 101, 116, 117, 112>>                            \* "setup"
s_ari == <<97, 114, 105>>                                         \* "ari"
s_a_r_i == <<97, 46, 114, 46, 105>>                               \* "a.r.i"
s_reserv == <<114, 101, 115, 101, 114, 118>>                      \* "reserv"
c_Setup_details == <<83, 101, 116, 117, 112, 32, 100, 101, 116, 97, 105, 108, 115>>  \* "Setup details"
c_ARI == <<65, 82, 73>>                                           \* "ARI"
c_Reservations == <<82, 101, 115, 101, 114, 118, 97, 116, 105, 111, 110, 115>>  \* "Reservations"

(* Values that stand for "no string": pandas NaN / Python None.  They are  *)
(* sequences too, with a code no character has, so that they compare with  *)
(* strings.                                                                *)
NaN == <<-1>>
None == <<-2>>

----------------------------------------------------------------------------
(* Python str operations *)

\* a sequence given as a function on 1..n, evaluated once into a tuple
List(f) == f \o <<>>

LowerChar(c) == IF c \in 65..90 THEN c + 32 ELSE c

Lower(s) == List([i \in 1..Len(s) |-> LowerChar(s[i])])

\* str.isspace() of one ASCII character
IsSpace(c) == c = 32 \/ c \in 9..13 \/ c \in 28..31

SetMin(S) == CHOOSE x \in S : \A y \in S : x <= y

\* the number of whitespace characters s starts with
LeadingSpaces(s) ==
    CHOOSE k \in 0..Len(s) :
        /\ \A j \in 1..k : IsSpace(s[j])
        /\ (k = Len(s) \/ ~IsSpace(s[k + 1]))

\* the number of whitespace characters s ends with
TrailingSpaces(s) ==
    CHOOSE k \in 0..Len(s) :
        /\ \A j \in (Len(s) - k + 1)..Len(s) : IsSpace(s[j])
        /\ (k = Len(s) \/ ~IsSpace(s[Len(s) - k]))

\* s.strip()
Strip(s) ==
    IF LeadingSpaces(s) = Len(s) THEN <<>>
    ELSE SubSeq(s, LeadingSpaces(s) + 1, Len(s) - TrailingSpaces(s))

\* needle in hay
Contains(hay, needle) ==
    \E i \in 0..(Len(hay) - Len(needle)) : SubSeq(hay, i + 1, i + Len(needle)) = needle

\* s.split()[0], for a string with at least one word
FirstWord(s) ==
    LET keep == {i \in 1..Len(s) : ~IsSpace(s[i])}
        b == SetMin(keep)
        stops == {i \in b..Len(s) : IsSpace(s[i])}
        e == IF stops = {} THEN Len(s) ELSE SetMin(stops) - 1
    IN  SubSeq(s, b, e)

\* a < b in Python's ordering of str (by code point, a proper prefix first)
StrLess(a, b) ==
    \E i \in 1..(Len(b)) :
        /\ i <= Len(a) + 1
        /\ \A j \in 1..(i - 1) : a[j] = b[j]
        /\ (i = Len(a) + 1 \/ a[i] < b[i])

\* x in seq
InSeq(x, seq) == \E i \in 1..Len(seq) : seq[i] = x

Range(seq) == {seq[i] : i \in 1..Len(seq)}

----------------------------------------------------------------------------
(* pandas operations on a column (a sequence of cells) *)

isna(v) == v = NaN

dropna(col) == SelectSeq(col, LAMBDA v : ~isna(v))

\* astype(str) of one cell: a missing cell becomes the text "nan"
str(v) == IF isna(v) THEN s_nan ELSE v

\* Series.unique(): first occurrences, in order of appearance
unique(col) ==
    LET F[i \in 0..Len(col)] ==
            IF i = 0 THEN <<>>
            ELSE IF \E j \in 1..(i - 1) : col[j] = col[i] THEN F[i - 1]
                 ELSE Append(F[i - 1], col[i])
    IN  F[Len(col)]

\* sorted(seq, key=...): stable, ascending by key; keys[i] is the key of seq[i]
sorted(seq, keys) ==
    LET Insert(acc, i) ==
            LET pos == Cardinality({j \in 1..Len(acc) : ~StrLess(keys[i], keys[acc[j]])})
            IN  SubSeq(acc, 1, pos) \o <<i>> \o SubSeq(acc, pos + 1, Len(acc))
        F[i \in 0..Len(seq)] == IF i = 0 THEN <<>> ELSE Insert(F[i - 1], i)
        order == F[Len(seq)]
    IN  List([k \in 1..Len(seq) |-> seq[order[k]]])

\* a DataFrame: column headers, and rows of cells aligned with the headers
ColIndex(d, c) == CHOOSE i \in 1..Len(d.cols) : d.cols[i] = c

Cell(d, r, c) == d.rows[r][ColIndex(d, c)]

Column(d, c) == List([r \in 1..Len(d.rows) |-> Cell(d, r, c)])

\* df.empty: no rows or no columns
empty(d) == Len(d.rows) = 0 \/ Len(d.cols) = 0

----------------------------------------------------------------------------
(* Load Data: read_excel_safe, load_df_cached and the uploader fallback *)

NoDf == [cols |-> <<>>, rows |-> <<>>]

SheetNames(book) == List([i \in 1..Len(book) |-> book[i].name])

\* sheet_name=0, the first sheet of the workbook
FirstSheet == <<0>>

\* pd.read_excel(book, sheet_name=sheet)
read_excel(book, sheet) ==
    IF sheet = FirstSheet THEN book[1].table
    ELSE book[CHOOSE i \in 1..Len(book) : book[i].name = sheet].table

CacheKey(path, sheet_name) == <<path, sheet_name>>

Cached(c, key) == \E i \in 1..Len(c) : c[i].key = key

CacheGet(c, key) == c[CHOOSE i \in 1..Len(c) : c[i].key = key].value

\* The result of lines 36-64 on the state: whether the script goes on, the
\* df it goes on with, the stage it stops in otherwise, and the cache and
\* read counts afterwards.
Load(up) ==
    IF fileExists
    THEN LET key == CacheKey(EXCEL_PATH, SHEET_NAME)
         IN  IF Cached(cache, key)
             THEN [ok |-> TRUE, df |-> CacheGet(cache, key), stage |-> "loaded",
                   cache |-> cache, reads |-> reads]
             ELSE IF InSeq(SHEET_NAME, SheetNames(wb))
             THEN LET d == read_excel(wb, SHEET_NAME)
                  IN  [ok |-> TRUE, df |-> d, stage |-> "loaded",
                       cache |-> Append(cache, [key |-> key, value |-> d]),
                       reads |-> [reads EXCEPT !["path"] = @ + 1]]
             ELSE \* pandas raises, read_excel_safe re-raises RuntimeError:
                  \* nothing is cached, st.error and st.stop
                  [ok |-> FALSE, df |-> NoDf, stage |-> "load_error",
                   cache |-> cache, reads |-> reads]
    ELSE IF ~up
         THEN [ok |-> FALSE, df |-> NoDf, stage |-> "need_upload",
               cache |-> cache, reads |-> reads]
         ELSE LET sheet_to_read == IF InSeq(SHEET_NAME, SheetNames(wb)) THEN SHEET_NAME ELSE FirstSheet
              IN  [ok |-> TRUE, df |-> read_excel(wb, sheet_to_read), stage |-> "loaded",
                   cache |-> cache, reads |-> [reads EXCEPT !["uploaded"] = @ + 1]]

----------------------------------------------------------------------------
(* Detect structure *)

cols(d) == d.cols

OtaAliases == {s_ota, s_ota_name, s_ota_name_us, s_channel, s_channel_name}

possible_ota_cols(d) == SelectSeq(cols(d), LAMBDA c : Lower(c) \in OtaAliases)

ota_col(d) ==
    LET possible == possible_ota_cols(d)
    IN  IF possible # <<>> THEN possible[1] ELSE cols(d)[1]

has_category_col(d) == \E i \in 1..Len(cols(d)) : Lower(cols(d)[i]) = s_category

category_col(d) ==
    IF has_category_col(d)
    THEN SelectSeq(cols(d), LAMBDA c : Lower(c) = s_category)[1]
    ELSE None

category_cols(d) ==
    IF ~has_category_col(d)
    THEN SelectSeq(cols(d), LAMBDA c : c # ota_col(d))
    ELSE <<>>

\* Series.astype(str)
astype_str(col) == List([i \in 1..Len(col) |-> str(col[i])])

\* Series.str.strip()
str_strip(col) == List([i \in 1..Len(col) |-> Strip(col[i])])

\* the keys str.lower gives
str_lower(col) == List([i \in 1..Len(col) |-> Lower(col[i])])

ota_list_plain_sort(d) ==
    LET names == unique(astype_str(dropna(Column(d, ota_col(d)))))
    IN  sorted(names, names)

\* sorted(df[ota_col].dropna().astype(str).unique(), key=str.lower)
ota_list(d) ==
    LET names == unique(astype_str(dropna(Column(d, ota_col(d)))))
    IN  sorted(names, str_lower(names))

----------------------------------------------------------------------------
(* Search and select *)

query_unstripped(t) == t

\* st.text_input(...).strip()
query(t) == Strip(t)

matches(candidates, q) ==
    IF q # <<>>
    THEN SelectSeq(candidates, LAMBDA o : Contains(Lower(o), Lower(q)))
    ELSE candidates

NoSel == [options |-> <<>>, value |-> None]

\* st.selectbox(label, options): a choice made by the user is kept while the
\* widget is the same one (same label and options); otherwise index 0
selectbox(options, s) ==
    IF s.options = options THEN s.value ELSE options[1]

----------------------------------------------------------------------------
(* Available categories of the selected OTA *)

FIXED_CATEGORIES == <<c_Setup_details, c_ARI, c_Reservations>>

RowIndices(d) == List([i \in 1..Len(d.rows) |-> i])

\* df[ota_col].astype(str).str.strip().str.lower(), at row r
NameKey(d, r) == Lower(Strip(str(Cell(d, r, ota_col(d)))))

\* df[category_col].astype(str).str.strip().str.lower(), at row r
CategoryKey(d, r) == Lower(Strip(str(Cell(d, r, category_col(d)))))

\* The rows get_available_categories_for_ota filters (lines 108, 110, 117):
\* the argument is stripped before it is compared
available_rows(d, ota) ==
    SelectSeq(RowIndices(d), LAMBDA r : NameKey(d, r) = Lower(Strip(str(ota))))

\* The rows the button handlers filter (lines 159, 174, 204, 212):
\* selected_ota is lower-cased only
handler_rows(d, selected_ota) ==
    SelectSeq(RowIndices(d), LAMBDA r : NameKey(d, r) = Lower(selected_ota))

\* The rows of the raw-row expander (line 223)
raw_rows(d, selected_ota) ==
    SelectSeq(RowIndices(d), LAMBDA r : NameKey(d, r) = Lower(selected_ota))

NotAvailableValues == {<<>>, s_na, s_n_a, s_none, s_no, s_0}

\* line 124-126: the cell counts as content of its category column
HasContent(val) == ~isna(val) /\ Lower(Strip(str(val))) \notin NotAvailableValues

get_available_categories_for_ota(d, ota) ==
    LET rows == available_rows(d, ota)
    IN  IF has_category_col(d)
        THEN IF rows = <<>> THEN <<>>
             ELSE unique(str_strip(astype_str(dropna(
                      List([i \in 1..Len(rows) |-> Cell(d, rows[i], category_col(d))])))))
        ELSE IF rows = <<>> THEN <<>>
             ELSE LET row == rows[1]
                  IN  SelectSeq(category_cols(d), LAMBDA c : HasContent(Cell(d, row, c)))

\* lines 136-145, for one available category
NormalizeCategory(a) ==
    LET a_low == Lower(Strip(a))
    IN  IF Contains(a_low, s_setup) THEN c_Setup_details
        ELSE IF a_low \in {s_ari, s_a_r_i} THEN c_ARI
        ELSE IF Contains(a_low, s_reserv) THEN c_Reservations
        ELSE a

normalized_available(available_categories) ==
    {NormalizeCategory(a) : a \in Range(available_categories)}

showed_any_never(normalized) == FALSE

\* lines 150-154: some fixed category is rendered as a button
showed_any(normalized) == \E i \in 1..Len(FIXED_CATEGORIES) : FIXED_CATEGORIES[i] \in normalized

\* the fixed categories rendered as buttons (the others are greyed out)
fixed_buttons(normalized) ==
    {FIXED_CATEGORIES[i] : i \in {j \in 1..Len(FIXED_CATEGORIES) : FIXED_CATEGORIES[j] \in normalized}}

\* lines 196-201: the buttons of the "Other categories" section
other_buttons(available_categories, normalized) ==
    IF ~showed_any(normalized) /\ Len(available_categories) > 0
    THEN available_categories
    ELSE <<>>

----------------------------------------------------------------------------
(* Button handlers.  A result is the message shown, the rows selected and   *)
(* the <<column, value>> pairs written.                                     *)

NoClick == [msg |-> "none", rows |-> <<>>, shown |-> <<>>]

\* lines 157-192
fixed_button_handler(d, selected_ota, cat) ==
    IF has_category_col(d)
    THEN LET first == Lower(FirstWord(cat))
             subset == SelectSeq(handler_rows(d, selected_ota),
                                 LAMBDA r : Contains(CategoryKey(d, r), first))
             details_cols == SelectSeq(cols(d), LAMBDA c : c \notin {ota_col(d), category_col(d)})
         IN  IF subset = <<>>
             THEN [NoClick EXCEPT !.msg = "no_details"]
             ELSE IF Len(details_cols) = 0
                  THEN [msg |-> "row_data", rows |-> subset, shown |-> <<>>]
                  ELSE [msg |-> "details", rows |-> subset, shown |-> <<>>]
    ELSE LET rows == handler_rows(d, selected_ota)
             first == Lower(FirstWord(cat))
             exact_or_fuzzy == SelectSeq(category_cols(d),
                 LAMBDA c : Lower(Strip(c)) = Lower(cat) \/ Contains(Lower(Strip(c)), first))
             matched_cols == IF exact_or_fuzzy # <<>> THEN exact_or_fuzzy
                 ELSE SelectSeq(category_cols(d), LAMBDA c : Contains(Lower(Strip(c)), first))
         IN  IF rows = <<>>
             THEN [NoClick EXCEPT !.msg = "no_row"]
             ELSE IF matched_cols = <<>>
                  THEN [NoClick EXCEPT !.msg = "no_column"]
                  ELSE [msg |-> "columns", rows |-> <<rows[1]>>,
                        shown |-> List([i \in 1..Len(matched_cols) |->
                            LET val == Cell(d, rows[1], matched_cols[i])
                            IN  IF isna(val) \/ Strip(str(val)) = <<>>
                                THEN <<matched_cols[i], None>>
                                ELSE <<matched_cols[i], val>>])]

\* lines 201-217
other_button_handler(d, selected_ota, c) ==
    IF has_category_col(d)
    THEN LET subset == SelectSeq(handler_rows(d, selected_ota),
                                 LAMBDA r : CategoryKey(d, r) = Lower(Strip(c)))
         IN  IF subset = <<>>
             THEN [NoClick EXCEPT !.msg = "no_details"]
             ELSE [msg |-> "details", rows |-> subset, shown |-> <<>>]
    ELSE LET rows == handler_rows(d, selected_ota)
         IN  IF rows = <<>>
             THEN [NoClick EXCEPT !.msg = "no_row"]
             ELSE [msg |-> "value", rows |-> <<rows[1]>>,
                   shown |-> << <<c, Cell(d, rows[1], c)>> >>]

----------------------------------------------------------------------------
(* One run of the script *)

Blank ==
    [stage |-> "init", ota_col |-> None, ota_list |-> <<>>, query |-> <<>>,
     matches |-> <<>>, selected_ota |-> None, available_categories |-> <<>>,
     normalized_available |-> {}, fixed_buttons |-> {}, other_buttons |-> <<>>,
     clicked |-> None, click |-> NoClick, raw_rows |-> <<>>]

\* lines 66-223 on a loaded df: t is the text typed, s the selectbox value
\* of the session, clk the button pressed (None: no button)
Render(d, t, s, clk) ==
    IF empty(d)
    THEN [Blank EXCEPT !.stage = "empty_df"]
    ELSE LET candidates == ota_list(d)
             q == query(t)
             m == matches(candidates, q)
         IN  IF m = <<>>
             THEN [Blank EXCEPT !.stage = "no_matches", !.ota_col = ota_col(d),
                                !.ota_list = candidates, !.query = q]
             ELSE LET selected_ota == selectbox(m, s)
                      available_categories == get_available_categories_for_ota(d, selected_ota)
                      normalized == normalized_available(available_categories)
                      fixed == fixed_buttons(normalized)
                      other == other_buttons(available_categories, normalized)
                  IN  [stage |-> "shown",
                       ota_col |-> ota_col(d),
                       ota_list |-> candidates,
                       query |-> q,
                       matches |-> m,
                       selected_ota |-> selected_ota,
                       available_categories |-> available_categories,
                       normalized_available |-> normalized,
                       fixed_buttons |-> fixed,
                       other_buttons |-> other,
                       clicked |-> IF clk \in fixed \/ InSeq(clk, other) THEN clk ELSE None,
                       click |-> IF clk \in fixed
                                 THEN fixed_button_handler(d, selected_ota, clk)
                                 ELSE IF InSeq(clk, other)
                                 THEN other_button_handler(d, selected_ota, clk)
                                 ELSE NoClick,
                       raw_rows |-> raw_rows(d, selected_ota)]

\* An interaction delivered to the session, then the script run from the
\* top.  Widgets the run does not reach lose their value.
Rerun(t, s, up, clk) ==
    LET ld == Load(up)
        o == IF ld.ok THEN Render(ld.df, t, s, clk) ELSE [Blank EXCEPT !.stage = ld.stage]
    IN  /\ ld.reads["uploaded"] <= MaxReads
        /\ cache' = ld.cache
        /\ reads' = ld.reads
        /\ df' = ld.df
        /\ out' = o
        /\ uploaded' = up
        /\ text' = IF out'.stage \in {"shown", "no_matches"} THEN t ELSE <<>>
        /\ sel' = IF out'.stage = "shown" /\ s.options = out'.matches THEN s ELSE NoSel
        /\ UNCHANGED <<fileExists, wb>>

----------------------------------------------------------------------------
(* Inputs: the sheets and the texts a user types *)

h_OTA_Name == <<79, 84, 65, 32, 78, 97, 109, 101>>                \* "OTA Name"
h_OTAName == <<79, 84, 65, 78, 97, 109, 101>>                     \* "OTAName"
h_OTA == <<79, 84, 65>>                                           \* "OTA"
h_Channel == <<67, 104, 97, 110, 110, 101, 108>>                  \* "Channel"
h_Category == <<67, 97, 116, 101, 103, 111, 114, 121>>            \* "Category"
h_A_R_I == <<65, 46, 82, 46, 73>>                                 \* "A.R.I"
h_Pricing == <<80, 114, 105, 99, 105, 110, 103>>                  \* "Pricing"
h_Reservation == <<82, 101, 115, 101, 114, 118, 97, 116, 105, 111, 110>>  \* "Reservation"
h_Notes == <<78, 111, 116, 101, 115>>                             \* "Notes"
h_Sheet1 == <<83, 104, 101, 101, 116, 49>>                        \* "Sheet1"
n_agoda == <<97, 103, 111, 100, 97>>                              \* "agoda"
n_Agoda_sp == <<32, 65, 103, 111, 100, 97>>                       \* " Agoda"
n_Booking_com == <<66, 111, 111, 107, 105, 110, 103, 46, 99, 111, 109>>  \* "Booking.com"
v_x == <<120>>                                                    \* "x"
v_No == <<78, 111>>                                               \* "No"
q_empty == <<>>                                                   \* ""
q_space == <<32>>                                                 \* " "
q_AGO_sp == <<32, 65, 71, 79>>                                    \* " AGO"
q_book == <<98, 111, 111, 107>>                                   \* "book"
q_booking_dot_com == <<98, 111, 111, 107, 105, 110, 103, 32, 100, 111, 116, 32, 99, 111, 109>>  \* "booking dot com"

Queries == {q_empty, q_space, q_AGO_sp, q_book, q_booking_dot_com}

\* a sheet layout: the headers and, per column, the cells a row may hold
Layouts ==
    { [cols |-> <<h_OTA_Name, h_Category>>,
       pools |-> <<{n_agoda, n_Booking_com}, {c_Setup_details, h_A_R_I, h_Pricing}>>],
      [cols |-> <<h_OTA, c_Setup_details, h_Reservation>>,
       pools |-> <<{n_agoda}, {NaN, v_x}, {v_No, v_x}>>],
      [cols |-> <<h_Category, h_OTAName>>,
       pools |-> <<{h_Pricing}, {n_agoda, n_Booking_com}>>],
      [cols |-> <<h_Channel, h_Notes>>,
       pools |-> <<{n_Agoda_sp, n_agoda, NaN}, {v_x}>>] }

RowsOver(pools) ==
    {r \in [1..Len(pools) -> UNION Range(pools)] : \A i \in 1..Len(pools) : r[i] \in pools[i]}

Tables ==
    UNION { {[cols |-> l.cols, rows |-> rs] :
                rs \in UNION {[1..n -> RowsOver(l.pools)] : n \in 0..MaxRows}} : l \in Layouts }

\* single-sheet workbooks, the sheet named SHEET_NAME or not
Workbooks == {<<[name |-> nm, table |-> tb]>> : nm \in {SHEET_NAME, h_Sheet1}, tb \in Tables}

----------------------------------------------------------------------------
(* The state machine *)

Init ==
    /\ fileExists \in BOOLEAN
    /\ wb \in Workbooks
    /\ cache = <<>>
    /\ reads = [src \in {"path", "uploaded"} |-> 0]
    /\ uploaded = FALSE
    /\ text = <<>>
    /\ sel = NoSel
    /\ df = NoDf
    /\ out = Blank

\* a browser session opens the page (or reloads it): fresh widgets, same process
OpenSession ==
    Rerun(<<>>, NoSel, FALSE, None)

\* the user attaches a file to the fallback uploader
UploadFile ==
    /\ out.stage = "need_upload"
    /\ Rerun(<<>>, NoSel, TRUE, None)

\* the user submits a text in the search box
TypeQuery ==
    /\ out.stage \in {"shown", "no_matches"}
    /\ \E t \in Queries :
        /\ t # text
        /\ Rerun(t, sel, uploaded, None)

\* the user picks an entry of the selectbox
SelectOta ==
    /\ out.stage = "shown"
    /\ \E i \in 1..Len(out.matches) :
        /\ out.matches[i] # out.selected_ota
        /\ Rerun(text, [options |-> out.matches, value |-> out.matches[i]], uploaded, None)

\* the user presses one of the fixed-category buttons that is rendered
ClickFixed ==
    /\ out.stage = "shown"
    /\ \E cat \in out.fixed_buttons : Rerun(text, sel, uploaded, cat)

\* the user presses a button of the "Other categories" section
ClickOther ==
    /\ out.stage = "shown"
    /\ \E i \in 1..Len(out.other_buttons) : Rerun(text, sel, uploaded, out.other_buttons[i])

Next ==
    \/ OpenSession
    \/ UploadFile
    \/ TypeQuery
    \/ SelectOta
    \/ ClickFixed
    \/ ClickOther

Spec == Init /\ [][Next]_vars

----------------------------------------------------------------------------
(* The name normalizer the specification describes (section 4.2).  The     *)
(* program has no such function; it is defined here to state claim C1.     *)

r_dot_sp == <<32, 100, 111, 116, 32>>                             \* " dot "
r_dotcom == <<32, 100, 111, 116, 99, 111, 109>>                   \* " dotcom"
r_dot_com == <<32, 100, 111, 116, 32, 99, 111, 109>>              \* " dot com"
r_con == <<32, 99, 111, 110>>                                     \* " con"
r_coma == <<32, 99, 111, 109, 97>>                                \* " coma"
r_dot == <<46>>                                                   \* "."
r_com == <<46, 99, 111, 109>>                                     \* ".com"
s_otaname == <<111, 116, 97, 110, 97, 109, 101>>                  \* "otaname"

RECURSIVE Replace(_, _, _)
\* s.replace(old, new): every occurrence, left to right, not overlapping
Replace(s, old, new) ==
    IF Len(s) < Len(old) THEN s
    ELSE IF SubSeq(s, 1, Len(old)) = old
         THEN new \o Replace(SubSeq(s, Len(old) + 1, Len(s)), old, new)
         ELSE <<s[1]>> \o Replace(Tail(s), old, new)

RemoveWhitespace(s) == SelectSeq(s, LAMBDA c : ~IsSpace(c))

Normalize(s) ==
    RemoveWhitespace(
        Replace(Replace(Replace(Replace(Replace(Strip(Lower(s)),
            r_dot_sp, r_dot), r_dotcom, r_com), r_dot_com, r_com), r_con, r_com), r_coma, r_com))

----------------------------------------------------------------------------
(* Claims *)

Searched == out.stage \in {"shown", "no_matches"}

\* the distinct non-missing names of the name column of the loaded table
NamesOfTable == {str(v) : v \in Range(Column(df, ota_col(df))) \ {NaN}}

NoDuplicates(seq) == \A i, j \in 1..Len(seq) : seq[i] = seq[j] => i = j

\* C1: for a non-empty query the match list is exactly the candidates whose
\* normalized form contains the normalized query, in the candidates' order
\* (so "booking dot com" matches "Booking.com").
C1_MatchesAreNormalizedSubstringMatches ==
    (Searched /\ out.query # <<>>) =>
        out.matches = SelectSeq(out.ota_list,
                                LAMBDA c : Contains(Normalize(c), Normalize(out.query)))

\* C2: every row that carries the selected OTA name contributes to the
\* available categories and to the rows a category click displays, in the
\* Category-column layout and in the column-per-category layout.
C2_AllRowsOfTheOtaContribute ==
    out.stage = "shown" =>
        LET rows == available_rows(df, out.selected_ota)
        IN  /\ has_category_col(df) =>
                \A i \in 1..Len(rows) :
                    ~isna(Cell(df, rows[i], category_col(df))) =>
                        InSeq(Strip(str(Cell(df, rows[i], category_col(df)))),
                              out.available_categories)
            /\ ~has_category_col(df) =>
                \A i \in 1..Len(rows) : \A c \in Range(category_cols(df)) :
                    HasContent(Cell(df, rows[i], c)) => InSeq(c, out.available_categories)
            /\ out.click.msg \in {"columns", "value"} =>
                out.click.rows = handler_rows(df, out.selected_ota)

\* C3: the 'no matches' outcome is shown only after a non-empty query matched
\* nothing, never while the query is empty.
C3_NoMatchesOnlyForNonEmptyQuery ==
    out.stage = "no_matches" => out.query # <<>>

\* C4: over any sequence of reruns the table is read at most once per
\* source, on the default-file path and on the uploaded-file path.
C4_TableReadAtMostOncePerSource ==
    \A src \in DOMAIN reads : reads[src] <= 1

\* C5: a column headed "OTA Name" or "OTAName" (in any letter case) is the
\* one chosen as the name column, wherever it stands among the columns.
C5_NameColumnIsOtaNameAlias ==
    (Searched /\ \E c \in Range(cols(df)) : Lower(c) \in {s_ota_name, s_otaname}) =>
        Lower(out.ota_col) \in {s_ota_name, s_otaname}

\* C6: when the query is empty, also after trimming whitespace, the match
\* list is the full candidate list: every candidate once, in the same order.
C6_EmptyQueryShowsAllCandidates ==
    (Searched /\ Strip(text) = <<>>) =>
        /\ out.matches = out.ota_list
        /\ Range(out.matches) = NamesOfTable
        /\ NoDuplicates(out.matches)

C6_Witness ==
    /\ out.stage = "shown"
    /\ text = q_space
    /\ out.matches = <<n_agoda, n_Booking_com>>

\* C7: the candidate list holds the distinct non-missing names of the name
\* column in case-insensitive alphabetical order, and the name selected by
\* default is the first element of the match list.
C7_CandidatesSortedAndDefaultIsFirst ==
    Searched =>
        /\ Range(out.ota_list) = NamesOfTable
        /\ NoDuplicates(out.ota_list)
        /\ \A i, j \in 1..Len(out.ota_list) :
              i < j => ~StrLess(Lower(out.ota_list[j]), Lower(out.ota_list[i]))
        /\ (out.stage = "shown" /\ sel = NoSel) => out.selected_ota = out.matches[1]

C7_Witness ==
    /\ out.stage = "shown"
    /\ out.ota_list = <<n_agoda, n_Booking_com>>
    /\ out.matches = <<n_Booking_com>>
    /\ sel = NoSel
    /\ out.selected_ota = n_Booking_com

\* C8: a fixed-category button that is rendered as available finds a row or
\* column when it is clicked: the click never ends in "No details found" or
\* "No column found".
C8_EnabledFixedButtonFindsDetails ==
    (out.stage = "shown" /\ out.clicked \in Range(FIXED_CATEGORIES)) =>
        out.click.msg \notin {"no_details", "no_column"}

\* C9: every category available for the selected OTA has a button: it maps
\* to a fixed-category button or is offered under "Other categories".
C9_EveryAvailableCategoryHasAButton ==
    out.stage = "shown" =>
        \A a \in Range(out.available_categories) :
            NormalizeCategory(a) \in out.fixed_buttons \/ InSeq(a, out.other_buttons)

\* C9, amended: an available category that maps to a fixed category gets that
\* fixed button; the "Other categories" buttons are all the available
\* categories when no fixed button is shown, and none when one is.
C9_OtherButtonsOnlyWithoutFixedButtons ==
    out.stage = "shown" =>
        /\ \A a \in Range(out.available_categories) :
              NormalizeCategory(a) \in Range(FIXED_CATEGORIES) =>
                  NormalizeCategory(a) \in out.fixed_buttons
        /\ out.fixed_buttons = {} => out.other_buttons = out.available_categories
        /\ out.fixed_buttons # {} => out.other_buttons = <<>>

C9_Witness ==
    /\ out.stage = "shown"
    /\ out.available_categories = <<c_Setup_details, h_Pricing>>
    /\ out.fixed_buttons = {c_Setup_details}
    /\ out.other_buttons = <<>>

\* C10: every name of the candidate list selects the same, non-empty set of
\* rows at every lookup site: the available-category filter, the button
\* handlers' filter and the raw-row filter.
C10_AllSitesSelectTheSameRows ==
    out.stage = "shown" =>
        /\ available_rows(df, out.selected_ota) # <<>>
        /\ available_rows(df, out.selected_ota) = handler_rows(df, out.selected_ota)
        /\ handler_rows(df, out.selected_ota) = out.raw_rows

====
